---- MODULE Spec2Model ----
(***************************************************************************)
(* A model of the sdl2_ttf binding (src/src/sdl2_ttf/lib.rs): the          *)
(* subsystem lifecycle (init / was_inited / quit), the Font handle (its    *)
(* loaders, its accessors and its Drop), the error bridge (get_error after *)
(* a failing native call) and the flag / enum translation.                 *)
(*                                                                         *)
(* The native SDL2_ttf library is the environment of the binding.  Its     *)
(* functions are the operators named TTF_...; they follow the behaviour of *)
(* SDL2_ttf 2.0.x (the initialisation counter, the FreeType library torn   *)
(* down by the last TTF_Quit, the freesrc flag of a font, the style of a   *)
(* font kept together with the style of its face).                         *)
(***************************************************************************)
EXTENDS Integers, Sequences, FiniteSets

\* ------------------------------------------------------------------ bounds
\* Number of Font handles a behaviour may create (each claim about a Font is
\* about one handle; a second one only adds handles that do not interact).
MaxFonts == 1

\* Largest outline width passed to set_outline.
MaxOutline == 2

\* The native integers tried as return values of the native getters are
\* -MaxNative .. MaxNative.
MaxNative == 16

\* The native initialisation count the threads may drive TTF_Init up to.
MaxInits == 3

\* ---------------------------------------------------------------- constants
\* The null pointer: raw.is_null().
NULL == 0

VARIABLES
    TTF_initialized,  \* SDL2_ttf's count of successful TTF_Init calls not yet undone
    lastError,        \* SDL's last-error string, one slot shared by every call
    fonts,            \* the Font handles: slot -> [status, raw, owned, dropInit]
    heap,             \* the native TTF_Font objects: pointer -> record
    rwNativeCloses,   \* how often the native library closed the caller's RWops stream
    last              \* the last operation of the binding: its native calls and its result

lifeVars == <<TTF_initialized, lastError, fonts, heap, rwNativeCloses, last>>

VARIABLES
    nf,          \* the settings of one open native font: style, face_style, outline, hinting, kerning
    setStyle,    \* the FontStyle last given to set_style (<<>> before the first)
    setHinting,  \* the Hinting last given to set_hinting (<<>> before the first)
    lastAttr     \* the last setter / getter called on the font and what it returned

attrVars == <<nf, setStyle, setHinting, lastAttr>>

VARIABLES
    ffi          \* a native getter's raw return value and what the binding made of it

VARIABLES
    pc,          \* per thread: where it is in init()
    initRet,     \* per thread: what its last init() returned since the last quit()
    wasRet       \* per thread: what its last was_inited() returned

thrVars == <<pc, initRet, wasRet>>

vars == <<lifeVars, attrVars, ffi, thrVars>>

FontIds == 1..MaxFonts

\* The threads that call init(), was_inited() and quit().
NThreads == 2

Threads == 1..NThreads

\* ------------------------------------------------------------ result values
\* Result<~Font, ~str>, Result<~Surface, ~str>, bool and () as records: kind
\* says which, msg is the ~str of an Err, val the pointer (1 / 0 for a bool).
Ok(p) == [kind |-> "Ok", msg |-> "", val |-> p]

Err(m) == [kind |-> "Err", msg |-> m, val |-> NULL]

Bool(b) == [kind |-> "Bool", msg |-> "", val |-> IF b THEN 1 ELSE 0]

Unit == [kind |-> "Unit", msg |-> "", val |-> 0]

\* The record `last` of one operation: op its name, calls the native calls it
\* made in order, failed whether its fallible native call signalled failure,
\* nerr the error string that failing call left in the slot, res its result.
Done(op, calls, failed, nerr, res) ==
    [op |-> op, calls |-> calls, failed |-> failed, nerr |-> nerr, res |-> res]

\* ------------------------------------------------------- the native library
\* int TTF_WasInit(void): the initialisation count.
TTF_WasInit == TTF_initialized

\* The statuses TTF_Init can return: FT_Init_FreeType is called, and may fail,
\* only when the library is not initialised yet.
TTF_Init_statuses == IF TTF_initialized = 0 THEN {0, -1} ELSE {0}

\* TTF_Init returning status st: a success is counted.
TTF_Init_count(st) == IF st = 0 THEN TTF_initialized + 1 ELSE TTF_initialized

TTF_Init_error(st) == IF st = 0 THEN lastError ELSE "Couldn't init FreeType engine"

\* void TTF_Quit(void): the count is decreased; the last quit tears FreeType down.
TTF_Quit_count == IF TTF_initialized > 0 THEN TTF_initialized - 1 ELSE 0

\* FT_Done_FreeType destroys every face of the library: each font object that
\* is still allocated becomes stale (its face is gone).
TTF_Quit_heap ==
    IF TTF_initialized = 1
    THEN [p \in FontIds |-> IF heap[p].alloc THEN [heap[p] EXCEPT !.stale = TRUE] ELSE heap[p]]
    ELSE heap

\* A native object that was never allocated.
NoObject ==
    [alloc |-> FALSE, stale |-> FALSE, src |-> "none", freesrc |-> 0,
     closes |-> 0, staleUse |-> FALSE]

\* The pointers an open call may return: NULL always (the file is missing or
\* is no font); a fresh object only when the library is initialised.
FreshPtrs ==
    LET free == {f \in FontIds : fonts[f].status = "none"}
    IN  IF free = {} THEN {} ELSE {CHOOSE f \in free : \A g \in free : f <= g}

OpenOutcomes == IF TTF_initialized = 0 THEN {NULL} ELSE {NULL} \cup FreshPtrs

\* The error string a failing native call leaves.
OpenError == IF TTF_initialized = 0 THEN "Library not initialized" ELSE "Couldn't load font file"

\* TTF_OpenFont*(..): the heap after the call returned raw.  src is "file" for
\* the path loaders (the library opens and owns its own stream) and "rwops"
\* for a caller's stream, freesrc the flag the caller passed.
TTF_Open_heap(raw, src, freesrc) ==
    IF raw = NULL THEN heap
    ELSE [heap EXCEPT ![raw] = [alloc |-> TRUE, stale |-> FALSE, src |-> src,
                                freesrc |-> freesrc, closes |-> 0, staleUse |-> FALSE]]

TTF_Open_error(raw) == IF raw = NULL THEN OpenError ELSE lastError

\* A failed open closes the caller's stream when freesrc is set.
TTF_Open_closes(raw, src, freesrc) ==
    IF raw = NULL /\ src = "rwops" /\ freesrc # 0 THEN rwNativeCloses + 1 ELSE rwNativeCloses

\* void TTF_CloseFont(font): the face is released, the object freed, and the
\* stream closed when the font owns it (freesrc).
TTF_CloseFont_heap(p) ==
    [heap EXCEPT ![p] = [@ EXCEPT !.alloc = FALSE, !.closes = @ + 1,
                                  !.staleUse = @ \/ heap[p].stale]]

TTF_CloseFont_closes(p) ==
    IF heap[p].src = "rwops" /\ heap[p].freesrc # 0 THEN rwNativeCloses + 1 ELSE rwNativeCloses

\* Any native call that reads font p (a metric, a size, a render).
TTF_Use_heap(p) == [heap EXCEPT ![p] = [@ EXCEPT !.staleUse = @ \/ heap[p].stale]]

\* ------------------------------------------------------------ the subsystem
\* init() without the TTF_WasInit test.
init_unchecked ==
    \E st \in TTF_Init_statuses :
        /\ TTF_initialized' = TTF_Init_count(st)
        /\ lastError' = TTF_Init_error(st)
        /\ last' = Done("init", <<"TTF_Init">>, st # 0, "", Bool(st = 0))
        /\ UNCHANGED <<fonts, heap, rwNativeCloses>>

\* pub fn init() -> bool
init ==
    IF TTF_WasInit = 1
    THEN /\ last' = Done("init", <<"TTF_WasInit">>, FALSE, "", Bool(TRUE))
         /\ UNCHANGED <<TTF_initialized, lastError, fonts, heap, rwNativeCloses>>
    ELSE \E st \in TTF_Init_statuses :
            /\ TTF_initialized' = TTF_Init_count(st)
            /\ lastError' = TTF_Init_error(st)
            /\ last' = Done("init", <<"TTF_WasInit", "TTF_Init">>, st # 0, "", Bool(st = 0))
            /\ UNCHANGED <<fonts, heap, rwNativeCloses>>

\* pub fn was_inited() -> bool
was_inited ==
    /\ last' = Done("was_inited", <<"TTF_WasInit">>, FALSE, "", Bool(TTF_WasInit = 1))
    /\ UNCHANGED <<TTF_initialized, lastError, fonts, heap, rwNativeCloses>>

\* pub fn quit()
quit ==
    /\ TTF_initialized' = TTF_Quit_count
    /\ heap' = TTF_Quit_heap
    /\ last' = Done("quit", <<"TTF_Quit">>, FALSE, "", Unit)
    /\ UNCHANGED <<lastError, fonts, rwNativeCloses>>

\* ---------------------------------------------------------------- Font::drop
\* impl Drop for Font: ghost dropInit records whether the subsystem was
\* initialised at the moment of the drop.
DroppedHandle(f) ==
    [fonts EXCEPT ![f] = [@ EXCEPT !.status = "dropped",
                                   !.dropInit = IF TTF_initialized > 0 THEN "yes" ELSE "no"]]

\* drop without the TTF_WasInit test.
drop_unguarded(f) ==
    /\ fonts[f].status = "live"
    /\ fonts' = DroppedHandle(f)
    /\ IF fonts[f].owned
       THEN /\ heap' = TTF_CloseFont_heap(fonts[f].raw)
            /\ rwNativeCloses' = TTF_CloseFont_closes(fonts[f].raw)
            /\ last' = Done("drop", <<"TTF_CloseFont">>, FALSE, "", Unit)
       ELSE /\ last' = Done("drop", <<>>, FALSE, "", Unit)
            /\ UNCHANGED <<heap, rwNativeCloses>>
    /\ UNCHANGED <<TTF_initialized, lastError>>

\* drop that never closes.
drop_leak(f) ==
    /\ fonts[f].status = "live"
    /\ fonts' = DroppedHandle(f)
    /\ last' = Done("drop", <<>>, FALSE, "", Unit)
    /\ UNCHANGED <<TTF_initialized, lastError, heap, rwNativeCloses>>

drop(f) ==
    /\ fonts[f].status = "live"
    /\ fonts' = DroppedHandle(f)
    /\ IF fonts[f].owned
       THEN IF TTF_WasInit = 1
            THEN /\ heap' = TTF_CloseFont_heap(fonts[f].raw)
                 /\ rwNativeCloses' = TTF_CloseFont_closes(fonts[f].raw)
                 /\ last' = Done("drop", <<"TTF_WasInit", "TTF_CloseFont">>, FALSE, "", Unit)
            ELSE /\ last' = Done("drop", <<"TTF_WasInit">>, FALSE, "", Unit)
                 /\ UNCHANGED <<heap, rwNativeCloses>>
       ELSE /\ last' = Done("drop", <<>>, FALSE, "", Unit)
            /\ UNCHANGED <<heap, rwNativeCloses>>
    /\ UNCHANGED <<TTF_initialized, lastError>>

\* ------------------------------------------------------------------ loaders
\* ~Font { raw: raw, owned: true } placed in the handle slot of its pointer.
NewHandle(raw) ==
    [fonts EXCEPT ![raw] = [status |-> "live", raw |-> raw, owned |-> TRUE, dropInit |-> "n/a"]]

\* The body shared by the four loaders: the native open call fn, then
\* if raw.is_null() { Err(get_error()) } else { Ok(~Font { raw: raw, owned: true }) }.
Load(op, fn, src, freesrc) ==
    \E raw \in OpenOutcomes :
        /\ heap' = TTF_Open_heap(raw, src, freesrc)
        /\ lastError' = TTF_Open_error(raw)
        /\ rwNativeCloses' = TTF_Open_closes(raw, src, freesrc)
        /\ IF raw = NULL
           THEN /\ last' = Done(op, <<fn, "SDL_GetError">>, TRUE, TTF_Open_error(raw),
                                Err(lastError'))
                /\ UNCHANGED fonts
           ELSE /\ last' = Done(op, <<fn>>, FALSE, "", Ok(raw))
                /\ fonts' = NewHandle(raw)
        /\ UNCHANGED TTF_initialized

\* from_file without the is_null test.
from_file_unchecked ==
    \E raw \in OpenOutcomes :
        /\ heap' = TTF_Open_heap(raw, "file", 0)
        /\ lastError' = TTF_Open_error(raw)
        /\ rwNativeCloses' = TTF_Open_closes(raw, "file", 0)
        /\ last' = Done("from_file", <<"TTF_OpenFont">>, raw = NULL, TTF_Open_error(raw), Ok(raw))
        /\ fonts' = IF raw = NULL THEN fonts ELSE NewHandle(raw)
        /\ UNCHANGED TTF_initialized

\* pub fn from_file(filename: &Path, ptsize: int) -> Result<~Font, ~str>
from_file == Load("from_file", "TTF_OpenFont", "file", 0)

\* pub fn from_file_index(filename, ptsize, index) -> Result<~Font, ~str>
from_file_index == Load("from_file_index", "TTF_OpenFontIndex", "file", 0)

\* load_font handing the stream over (freesrc = 1).
load_font_freesrc == Load("load_font", "TTF_OpenFontRW", "rwops", 1)

\* fn load_font(&self, ptsize: int) -> Result<~Font, ~str>
load_font == Load("load_font", "TTF_OpenFontRW", "rwops", 0)

\* fn load_font_index(&self, ptsize: int, index: int) -> Result<~Font, ~str>
load_font_index == Load("load_font_index", "TTF_OpenFontIndexRW", "rwops", 0)

\* ---------------------------------------------------------------- accessors
\* The accessors that only read the font: ffi::fn(self.raw), the native value
\* translated and returned.  op is the method, fn the native function.
AccessorOps ==
    { <<"height", "TTF_FontHeight">>, <<"ascent", "TTF_FontAscent">>,
      <<"descent", "TTF_FontDescent">>, <<"line_skip", "TTF_FontLineSkip">>,
      <<"faces", "TTF_FontFaces">>,
      <<"face_is_fixed_width", "TTF_FontFaceIsFixedWidth">>,
      <<"face_family_name", "TTF_FontFaceFamilyName">>,
      <<"face_style_name", "TTF_FontFaceStyleName">>,
      <<"index_of_char", "TTF_GlyphIsProvided">>,
      <<"metrics_of_char", "TTF_GlyphMetrics">> }

\* The value an accessor hands back is the native library's.
Native == [kind |-> "Native", msg |-> "", val |-> 0]

Accessor(f, op, fn) ==
    /\ fonts[f].status = "live"
    /\ heap' = TTF_Use_heap(fonts[f].raw)
    /\ last' = Done(op, <<fn>>, FALSE, "", Native)
    /\ UNCHANGED <<TTF_initialized, lastError, fonts, rwNativeCloses>>

\* ------------------------------------------------------------ size_of_*
SizeOps == { <<"size_of_bytes", "TTF_SizeText">>, <<"size_of_str", "TTF_SizeUTF8">> }

SizeError == "Couldn't find glyph"

\* The status of TTF_Size*: 0, or -1 with the error string set.
TTF_Size_error(ret) == IF ret # 0 THEN SizeError ELSE lastError

\* size_of_* reading the error string before the native call.
SizeOf_deferred(f, op, fn) ==
    /\ fonts[f].status = "live"
    /\ \E ret \in {0, -1} :
        /\ heap' = TTF_Use_heap(fonts[f].raw)
        /\ lastError' = TTF_Size_error(ret)
        /\ IF ret # 0
           THEN last' = Done(op, <<"SDL_GetError", fn>>, TRUE, TTF_Size_error(ret), Err(lastError))
           ELSE last' = Done(op, <<fn>>, FALSE, "", Ok(1))
    /\ UNCHANGED <<TTF_initialized, fonts, rwNativeCloses>>

\* pub fn size_of_bytes / size_of_str (&self, text) -> Result<(int, int), ~str>:
\* let ret = TTF_Size*(self.raw, ctext, &w, &h);
\* if ret != 0 { Err(get_error()) } else { Ok((w as int, h as int)) }
SizeOf(f, op, fn) ==
    /\ fonts[f].status = "live"
    /\ \E ret \in {0, -1} :
        /\ heap' = TTF_Use_heap(fonts[f].raw)
        /\ lastError' = TTF_Size_error(ret)
        /\ IF ret # 0
           THEN last' = Done(op, <<fn, "SDL_GetError">>, TRUE, TTF_Size_error(ret), Err(lastError'))
           ELSE last' = Done(op, <<fn>>, FALSE, "", Ok(1))
    /\ UNCHANGED <<TTF_initialized, fonts, rwNativeCloses>>

\* ------------------------------------------------------------- render_*
RenderOps ==
    { <<"render_bytes_solid", "TTF_RenderText_Solid">>,
      <<"render_str_solid", "TTF_RenderUTF8_Solid">>,
      <<"render_char_solid", "TTF_RenderGlyph_Solid">>,
      <<"render_bytes_shaded", "TTF_RenderText_Shaded">>,
      <<"render_str_shaded", "TTF_RenderUTF8_Shaded">>,
      <<"render_char_shaded", "TTF_RenderGlyph_Shaded">>,
      <<"render_bytes_blended", "TTF_RenderText_Blended">>,
      <<"render_str_blended", "TTF_RenderUTF8_Blended">>,
      <<"render_char_blended", "TTF_RenderGlyph_Blended">> }

RenderError == "Text has zero width"

\* The surface TTF_Render* returns: NULL with the error string set, or a surface.
TTF_Render_error(surf) == IF surf = NULL THEN RenderError ELSE lastError

\* pub fn render_*(&self, text, fg[, bg]) -> Result<~Surface, ~str>: the colours
\* are converted (to_color, no native call) as arguments of the native call;
\* if raw.is_null() { Err(get_error()) } else { Ok(~Surface { raw: raw, owned: true }) }
Render(f, op, fn) ==
    /\ fonts[f].status = "live"
    /\ \E surf \in {NULL, 1} :
        /\ heap' = TTF_Use_heap(fonts[f].raw)
        /\ lastError' = TTF_Render_error(surf)
        /\ IF surf = NULL
           THEN last' = Done(op, <<fn, "SDL_GetError">>, TRUE, TTF_Render_error(surf), Err(lastError'))
           ELSE last' = Done(op, <<fn>>, FALSE, "", Ok(surf))
    /\ UNCHANGED <<TTF_initialized, fonts, rwNativeCloses>>

\* ------------------------------------------------- flag and enum translation
\* The TTF_STYLE_* and TTF_HINTING_* constants of SDL_ttf.h, declared in ffi.rs.
TTF_STYLE_NORMAL == 0

TTF_STYLE_BOLD == 1

TTF_STYLE_ITALIC == 2

TTF_STYLE_UNDERLINE == 4

TTF_STYLE_STRIKETHROUGH == 8

TTF_HINTING_NORMAL == 0

TTF_HINTING_LIGHT == 1

TTF_HINTING_MONO == 2

TTF_HINTING_NONE == 3

\* The FreeType load flags in which SDL2_ttf keeps the hinting of a font.
FT_LOAD_TARGET_LIGHT == 65536

FT_LOAD_TARGET_MONO == 131072

FT_LOAD_NO_HINTING == 2

\* Bitwise or of two naturals.
RECURSIVE BitOr(_, _)
BitOr(a, b) ==
    IF a = 0 THEN b
    ELSE IF b = 0 THEN a
    ELSE (IF a % 2 = 1 \/ b % 2 = 1 THEN 1 ELSE 0) + 2 * BitOr(a \div 2, b \div 2)

\* flag_type!(FontStyle : c_int { .. }): a struct around the bits;
\* FontStyle::new(bits) wraps them and get() hands them back.
FontStyle_new(bits) == [bits |-> bits]

FontStyle_get(s) == s.bits

\* The five named flags and the values `|` builds from them.
StyleFlags ==
    {TTF_STYLE_NORMAL, TTF_STYLE_BOLD, TTF_STYLE_ITALIC, TTF_STYLE_UNDERLINE,
     TTF_STYLE_STRIKETHROUGH}

RECURSIVE OrAll(_)
OrAll(S) == IF S = {} THEN 0 ELSE LET x == CHOOSE x \in S : TRUE IN BitOr(x, OrAll(S \ {x}))

FontStyles == {FontStyle_new(OrAll(S)) : S \in SUBSET StyleFlags}

\* pub enum Hinting and its discriminants.
Hintings == {"HintingNormal", "HintingLight", "HintingMono", "HintingNone"}

\* hinting as c_int
Hinting_as_c_int(h) ==
    CASE h = "HintingNormal" -> TTF_HINTING_NORMAL
      [] h = "HintingLight" -> TTF_HINTING_LIGHT
      [] h = "HintingMono" -> TTF_HINTING_MONO
      [] h = "HintingNone" -> TTF_HINTING_NONE

\* #[deriving(FromPrimitive)]: FromPrimitive::from_i32(n), an Option<Hinting>:
\* <<h>> for Some(h), <<>> for None.
Hinting_from_i32(n) ==
    IF \E h \in Hintings : Hinting_as_c_int(h) = n
    THEN <<CHOOSE h \in Hintings : Hinting_as_c_int(h) = n>>
    ELSE <<>>

\* Option::unwrap(): the value of Some, a task failure ("panic") on None.
unwrap(o) == IF o = <<>> THEN "panic" ELSE o[1]

\* What a setter or getter hands back: op the method, and the FontStyle, the
\* Hinting, the int or the bool it returned (a setter returns nothing).
NoValue == [op |-> "none", style |-> FontStyle_new(0), hinting |-> "", num |-> 0, flag |-> FALSE]

\* What each getter makes of the native return value n.
get_style_of(n) == FontStyle_new(n)

get_hinting_of(n) == unwrap(Hinting_from_i32(n))

get_kerning_of(n) == n # 0

get_outline_of(n) == n

\* ---------------------------------------------- the native font's settings
\* TTF_SetFontStyle: font->style = style | font->face_style.
TTF_SetFontStyle(font, style) == [font EXCEPT !.style = BitOr(style, font.face_style)]

TTF_GetFontStyle(font) == font.style

\* TTF_SetFontOutline: font->outline = outline.
TTF_SetFontOutline(font, outline) == [font EXCEPT !.outline = outline]

TTF_GetFontOutline(font) == font.outline

\* TTF_SetFontHinting: the FreeType load flags of the hinting; anything but
\* light, mono and none is normal.
TTF_SetFontHinting(font, hinting) ==
    [font EXCEPT !.hinting =
        IF hinting = TTF_HINTING_LIGHT THEN FT_LOAD_TARGET_LIGHT
        ELSE IF hinting = TTF_HINTING_MONO THEN FT_LOAD_TARGET_MONO
        ELSE IF hinting = TTF_HINTING_NONE THEN FT_LOAD_NO_HINTING
        ELSE 0]

TTF_GetFontHinting(font) ==
    IF font.hinting = FT_LOAD_TARGET_LIGHT THEN TTF_HINTING_LIGHT
    ELSE IF font.hinting = FT_LOAD_TARGET_MONO THEN TTF_HINTING_MONO
    ELSE IF font.hinting = FT_LOAD_NO_HINTING THEN TTF_HINTING_NONE
    ELSE TTF_HINTING_NORMAL

\* TTF_SetFontKerning: font->kerning = allowed.
TTF_SetFontKerning(font, allowed) == [font EXCEPT !.kerning = allowed]

TTF_GetFontKerning(font) == font.kerning

\* A font as TTF_OpenFont* leaves it: the style is the face's own style (bold,
\* italic, both or neither), no outline, normal hinting, kerning allowed.
OpenedFonts ==
    { [style |-> fs, face_style |-> fs, outline |-> 0, hinting |-> 0, kerning |-> 1] :
        fs \in {TTF_STYLE_NORMAL, TTF_STYLE_BOLD, TTF_STYLE_ITALIC,
                BitOr(TTF_STYLE_BOLD, TTF_STYLE_ITALIC)} }

\* -------------------------------------------------- setters and getters
\* pub fn get_style(&self) -> FontStyle
get_style ==
    /\ lastAttr' = [NoValue EXCEPT !.op = "get_style", !.style = get_style_of(TTF_GetFontStyle(nf))]
    /\ UNCHANGED <<nf, setStyle, setHinting>>

\* pub fn set_style(&mut self, styles: FontStyle)
set_style(styles) ==
    /\ nf' = TTF_SetFontStyle(nf, FontStyle_get(styles))
    /\ setStyle' = <<styles>>
    /\ lastAttr' = [NoValue EXCEPT !.op = "set_style"]
    /\ UNCHANGED setHinting

\* pub fn get_outline(&self) -> int
get_outline ==
    /\ lastAttr' = [NoValue EXCEPT !.op = "get_outline", !.num = get_outline_of(TTF_GetFontOutline(nf))]
    /\ UNCHANGED <<nf, setStyle, setHinting>>

\* pub fn set_outline(&mut self, outline: int); outline as c_int keeps the
\* widths tried, 0..MaxOutline.
set_outline(outline) ==
    /\ nf' = TTF_SetFontOutline(nf, outline)
    /\ lastAttr' = [NoValue EXCEPT !.op = "set_outline"]
    /\ UNCHANGED <<setStyle, setHinting>>

\* pub fn get_hinting(&self) -> Hinting
get_hinting ==
    /\ lastAttr' = [NoValue EXCEPT !.op = "get_hinting", !.hinting = get_hinting_of(TTF_GetFontHinting(nf))]
    /\ UNCHANGED <<nf, setStyle, setHinting>>

\* set_hinting passing TTF_HINTING_NORMAL whatever the argument.
set_hinting_normal(hinting) ==
    /\ nf' = TTF_SetFontHinting(nf, TTF_HINTING_NORMAL)
    /\ setHinting' = <<hinting>>
    /\ lastAttr' = [NoValue EXCEPT !.op = "set_hinting"]
    /\ UNCHANGED setStyle

\* pub fn set_hinting(&mut self, hinting: Hinting)
set_hinting(hinting) ==
    /\ nf' = TTF_SetFontHinting(nf, Hinting_as_c_int(hinting))
    /\ setHinting' = <<hinting>>
    /\ lastAttr' = [NoValue EXCEPT !.op = "set_hinting"]
    /\ UNCHANGED setStyle

\* pub fn get_kerning(&self) -> bool
get_kerning ==
    /\ lastAttr' = [NoValue EXCEPT !.op = "get_kerning", !.flag = get_kerning_of(TTF_GetFontKerning(nf))]
    /\ UNCHANGED <<nf, setStyle, setHinting>>

\* pub fn set_kerning(&mut self, kerning: bool)
set_kerning(kerning) ==
    /\ nf' = TTF_SetFontKerning(nf, IF kerning THEN 1 ELSE 0)
    /\ lastAttr' = [NoValue EXCEPT !.op = "set_kerning"]
    /\ UNCHANGED <<setStyle, setHinting>>

\* ------------------------------------- the getters on any native return value
\* The native return values tried.
CInts == (0 - MaxNative)..MaxNative

\* Each getter applied to a native function that returns n.
ffi_get_hinting == \E n \in CInts : ffi' = [fn |-> "TTF_GetFontHinting", ret |-> n, out |-> [NoValue EXCEPT !.op = "get_hinting", !.hinting = get_hinting_of(n)]]

ffi_get_style == \E n \in CInts : ffi' = [fn |-> "TTF_GetFontStyle", ret |-> n, out |-> [NoValue EXCEPT !.op = "get_style", !.style = get_style_of(n)]]

ffi_get_kerning == \E n \in CInts : ffi' = [fn |-> "TTF_GetFontKerning", ret |-> n, out |-> [NoValue EXCEPT !.op = "get_kerning", !.flag = get_kerning_of(n)]]

ffi_get_outline == \E n \in CInts : ffi' = [fn |-> "TTF_GetFontOutline", ret |-> n, out |-> [NoValue EXCEPT !.op = "get_outline", !.num = get_outline_of(n)]]

\* ------------------------------------------------ init() and quit() by threads
\* init() is two native calls, and another thread may run between them:
\* the TTF_WasInit() == 1 test ...
t_init_check(t) ==
    /\ pc[t] = "idle"
    /\ IF TTF_WasInit = 1
       THEN /\ initRet' = [initRet EXCEPT ![t] = "true"]
            /\ UNCHANGED pc
       ELSE /\ pc' = [pc EXCEPT ![t] = "init_call"]
            /\ UNCHANGED initRet
    /\ UNCHANGED <<TTF_initialized, lastError, wasRet>>

\* ... and, in its else branch, TTF_Init() == 0.
t_init_call(t) ==
    /\ pc[t] = "init_call"
    /\ TTF_initialized < MaxInits
    /\ \E st \in TTF_Init_statuses :
        /\ TTF_initialized' = TTF_Init_count(st)
        /\ lastError' = TTF_Init_error(st)
        /\ initRet' = [initRet EXCEPT ![t] = IF st = 0 THEN "true" ELSE "false"]
    /\ pc' = [pc EXCEPT ![t] = "idle"]
    /\ UNCHANGED wasRet

\* was_inited() by thread t.
t_was_inited(t) ==
    /\ pc[t] = "idle"
    /\ wasRet' = [wasRet EXCEPT ![t] = IF TTF_WasInit = 1 THEN "true" ELSE "false"]
    /\ UNCHANGED <<TTF_initialized, lastError, pc, initRet>>

\* quit() by thread t (no Font exists here, so no native font goes stale);
\* what init() returned before it says nothing of the state after it.
t_quit(t) ==
    /\ pc[t] = "idle"
    /\ TTF_initialized' = TTF_Quit_count
    /\ initRet' = [u \in Threads |-> "none"]
    /\ wasRet' = [u \in Threads |-> "none"]
    /\ UNCHANGED <<lastError, pc>>

\* -------------------------------------------------------------------- Init
NoHandle == [status |-> "none", raw |-> NULL, owned |-> FALSE, dropInit |-> "n/a"]

LifeInit ==
    /\ TTF_initialized = 0
    /\ lastError = ""
    /\ fonts = [f \in FontIds |-> NoHandle]
    /\ heap = [p \in FontIds |-> NoObject]
    /\ rwNativeCloses = 0
    /\ last = Done("none", <<>>, FALSE, "", Unit)


\* The font of the attribute operations before it is opened, the getters
\* before any call, the threads at rest.
AttrIdle ==
    /\ nf = [style |-> 0, face_style |-> 0, outline |-> 0, hinting |-> 0, kerning |-> 1]
    /\ setStyle = <<>>
    /\ setHinting = <<>>
    /\ lastAttr = NoValue

FfiIdle == ffi = [fn |-> "none", ret |-> 0, out |-> NoValue]

ThreadsIdle ==
    /\ pc = [t \in Threads |-> "idle"]
    /\ initRet = [t \in Threads |-> "none"]
    /\ wasRet = [t \in Threads |-> "none"]

\* The lifecycle of the subsystem and of the Font handles, one caller.
Init == LifeInit /\ AttrIdle /\ FfiIdle /\ ThreadsIdle

Next ==
    \/ init /\ UNCHANGED <<attrVars, ffi, thrVars>>
    \/ was_inited /\ UNCHANGED <<attrVars, ffi, thrVars>>
    \/ quit /\ UNCHANGED <<attrVars, ffi, thrVars>>
    \/ from_file /\ UNCHANGED <<attrVars, ffi, thrVars>>
    \/ from_file_index /\ UNCHANGED <<attrVars, ffi, thrVars>>
    \/ load_font /\ UNCHANGED <<attrVars, ffi, thrVars>>
    \/ load_font_index /\ UNCHANGED <<attrVars, ffi, thrVars>>
    \/ \E f \in FontIds : drop(f) /\ UNCHANGED <<attrVars, ffi, thrVars>>
    \/ \E f \in FontIds : \E a \in AccessorOps :
          Accessor(f, a[1], a[2]) /\ UNCHANGED <<attrVars, ffi, thrVars>>
    \/ \E f \in FontIds : \E a \in SizeOps :
          SizeOf(f, a[1], a[2]) /\ UNCHANGED <<attrVars, ffi, thrVars>>
    \/ \E f \in FontIds : \E a \in RenderOps :
          Render(f, a[1], a[2]) /\ UNCHANGED <<attrVars, ffi, thrVars>>

Spec == Init /\ [][Next]_vars

\* The setters and getters of one open font.
AttrInit ==
    /\ LifeInit /\ FfiIdle /\ ThreadsIdle
    /\ nf \in OpenedFonts
    /\ setStyle = <<>>
    /\ setHinting = <<>>
    /\ lastAttr = NoValue

AttrNext ==
    \/ get_style /\ UNCHANGED <<lifeVars, ffi, thrVars>>
    \/ \E s \in FontStyles : set_style(s) /\ UNCHANGED <<lifeVars, ffi, thrVars>>
    \/ get_outline /\ UNCHANGED <<lifeVars, ffi, thrVars>>
    \/ \E o \in 0..MaxOutline : set_outline(o) /\ UNCHANGED <<lifeVars, ffi, thrVars>>
    \/ get_hinting /\ UNCHANGED <<lifeVars, ffi, thrVars>>
    \/ \E h \in Hintings : set_hinting(h) /\ UNCHANGED <<lifeVars, ffi, thrVars>>
    \/ get_kerning /\ UNCHANGED <<lifeVars, ffi, thrVars>>
    \/ \E k \in BOOLEAN : set_kerning(k) /\ UNCHANGED <<lifeVars, ffi, thrVars>>

SpecAttr == AttrInit /\ [][AttrNext]_vars

\* The getters' translation of a native return value, for every value in CInts.
FfiInit == LifeInit /\ AttrIdle /\ FfiIdle /\ ThreadsIdle

FfiNext ==
    \/ ffi_get_hinting /\ UNCHANGED <<lifeVars, attrVars, thrVars>>
    \/ ffi_get_style /\ UNCHANGED <<lifeVars, attrVars, thrVars>>
    \/ ffi_get_kerning /\ UNCHANGED <<lifeVars, attrVars, thrVars>>
    \/ ffi_get_outline /\ UNCHANGED <<lifeVars, attrVars, thrVars>>

SpecFfi == FfiInit /\ [][FfiNext]_vars

\* init(), was_inited() and quit() called by the threads, no Font in use.
ThreadsInit == LifeInit /\ AttrIdle /\ FfiIdle /\ ThreadsIdle

ThreadsNext ==
    \/ \E t \in Threads : t_init_check(t) /\ UNCHANGED <<fonts, heap, rwNativeCloses, last, attrVars, ffi>>
    \/ \E t \in Threads : t_init_call(t) /\ UNCHANGED <<fonts, heap, rwNativeCloses, last, attrVars, ffi>>
    \/ \E t \in Threads : t_was_inited(t) /\ UNCHANGED <<fonts, heap, rwNativeCloses, last, attrVars, ffi>>
    \/ \E t \in Threads : t_quit(t) /\ UNCHANGED <<fonts, heap, rwNativeCloses, last, attrVars, ffi>>

SpecThreads == ThreadsInit /\ [][ThreadsNext]_vars

\* ------------------------------------------------------------------ claims
Calls(c) == {c[i] : i \in 1..Len(c)}

Initialized == TTF_initialized > 0

LoaderOps == {"from_file", "from_file_index", "load_font", "load_font_index"}

LoaderFns == {"TTF_OpenFont", "TTF_OpenFontIndex", "TTF_OpenFontRW", "TTF_OpenFontIndexRW"}

FallibleOps == LoaderOps \cup {a[1] : a \in SizeOps} \cup {a[1] : a \in RenderOps}

FallibleFns == LoaderFns \cup {a[2] : a \in SizeOps} \cup {a[2] : a \in RenderOps}

\* C1: a step that drops a Font makes the native close call (TTF_CloseFont,
\* counted in the object's closes) exactly when the handle is owning and the
\* subsystem is initialized at that moment; the drop returns normally; and no
\* step other than the drop of a font closes it.
C1_DropClosesIffOwningAndInitialized ==
    [][\A f \in FontIds :
         /\ (fonts[f].status = "live" /\ fonts'[f].status = "dropped") =>
               /\ ("TTF_CloseFont" \in Calls(last'.calls)) <=> (fonts[f].owned /\ Initialized)
               /\ heap'[fonts[f].raw].closes =
                    heap[fonts[f].raw].closes + (IF fonts[f].owned /\ Initialized THEN 1 ELSE 0)
               /\ last'.op = "drop" /\ last'.res = Unit /\ ~last'.failed
         /\ (heap'[f].closes # heap[f].closes) =>
               (fonts[f].status = "live" /\ fonts'[f].status = "dropped")
      ]_vars

\* C1 witness: an owning Font was dropped after quit() and was not closed.
C1_Witness ==
    \E f \in FontIds :
        /\ fonts[f].status = "dropped" /\ fonts[f].owned /\ fonts[f].dropInit = "no"
        /\ heap[fonts[f].raw].closes = 0
        /\ last.op = "drop" /\ last.calls = <<"TTF_WasInit">>

\* C2: no native font is closed more than once, and no native font is closed
\* or dereferenced after the subsystem session in which it was loaded was
\* shut down by quit() (staleUse records such a call).
C2_NoDoubleFreeNoUseAfterShutdown ==
    \A p \in FontIds : heap[p].closes <= 1 /\ ~heap[p].staleUse

\* C3: once the subsystem is initialized, an init() step returns true, leaves
\* was_inited() true, makes no native TTF_Init call and leaves the native
\* initialisation count at one, so that one quit() uninitializes.
C3_InitIdempotent ==
    [][(Initialized /\ last'.op = "init") =>
          /\ last'.res = Bool(TRUE)
          /\ "TTF_Init" \notin Calls(last'.calls)
          /\ TTF_initialized' = TTF_initialized
          /\ TTF_initialized' = 1
      ]_vars

\* C3 witness: init() was called on an initialized subsystem.
C3_Witness ==
    /\ last.op = "init" /\ last.calls = <<"TTF_WasInit">>
    /\ last.res = Bool(TRUE) /\ TTF_initialized = 1

\* C4: a loader returns Err carrying the native last-error string exactly when
\* the native open call returned NULL, otherwise Ok with a live Font whose raw
\* pointer is the non-null pointer returned and whose owned flag is true;
\* every Font that exists has a non-null raw pointer and is owning.
C4_LoaderResult ==
    /\ \A f \in FontIds : fonts[f].status # "none" => (fonts[f].raw # NULL /\ fonts[f].owned)
    /\ last.op \in LoaderOps =>
          /\ (last.res.kind = "Err") <=> last.failed
          /\ last.failed => (last.res.msg = lastError /\ last.res.msg # "")
          /\ ~last.failed =>
                /\ last.res.kind = "Ok" /\ last.res.val # NULL
                /\ fonts[last.res.val].status = "live"
                /\ fonts[last.res.val].raw = last.res.val
                /\ fonts[last.res.val].owned

\* C4 witness: a load failed on an initialized subsystem (a missing file) and
\* was reported as Err.
C4_Witness ==
    /\ last.op \in LoaderOps /\ last.failed /\ Initialized
    /\ last.res = Err("Couldn't load font file")

\* C5 as stated: every dropped Font has had its native font closed exactly once.
C5_ClosedExactlyOnce ==
    \A f \in FontIds : fonts[f].status = "dropped" => heap[fonts[f].raw].closes = 1

\* C5 as amended: a native font is closed at most once; a dropped Font's native
\* font has been closed once when the subsystem was initialized at the moment
\* of the drop, and never when quit() came before the drop; a live Font's
\* native font has not been closed.
C5_ClosedOnceIffInitializedAtDrop ==
    \A f \in FontIds :
        /\ fonts[f].status = "live" => heap[fonts[f].raw].closes = 0
        /\ fonts[f].status = "dropped" =>
              heap[fonts[f].raw].closes = (IF fonts[f].dropInit = "yes" THEN 1 ELSE 0)

\* C5 witness: a Font dropped while the subsystem was initialized was closed once.
C5_Witness ==
    \E f \in FontIds :
        /\ fonts[f].status = "dropped" /\ fonts[f].dropInit = "yes"
        /\ heap[fonts[f].raw].closes = 1

\* C6: init() and quit() called by two threads behave as if serialized: the
\* native initialisation count never exceeds one, and when every thread's
\* init() has returned true the subsystem reports itself initialized.
C6_InitSerialized ==
    /\ TTF_initialized <= 1
    /\ (\A t \in Threads : pc[t] = "idle" /\ initRet[t] = "true") => TTF_WasInit = 1

\* C7: get_hinting() yields a defined result, and does not panic, for every
\* integer TTF_GetFontHinting returns.
C7_GetHintingNeverPanics ==
    ffi.fn = "TTF_GetFontHinting" => ffi.out.hinting # "panic"

C9_ErrorReadImmediately ==
    last.op \in FallibleOps =>
        /\ last.failed =>
              /\ \E i \in 1..(Len(last.calls) - 1) :
                    /\ last.calls[i] \in FallibleFns
                    /\ last.calls[i + 1] = "SDL_GetError"
              /\ last.nerr # ""
              /\ last.res = Err(last.nerr)
        /\ ~last.failed => (last.res.kind = "Ok" /\ "SDL_GetError" \notin Calls(last.calls))

\* C9 witness: a size call failed and the Err carries the size call's own string.
C9_Witness ==
    /\ last.op \in {a[1] : a \in SizeOps} /\ last.failed
    /\ last.res = Err(SizeError) /\ lastError = SizeError

\* C10: the native library never closes the caller's stream: every font
\* loaded from an RWops was opened with freesrc = 0.
C10_StreamNeverClosedByNative ==
    /\ rwNativeCloses = 0
    /\ \A p \in FontIds : heap[p].src = "rwops" => heap[p].freesrc = 0

\* C10 witness: a font loaded from the stream has been closed by its drop.
C10_Witness ==
    \E p \in FontIds :
        /\ heap[p].src = "rwops" /\ heap[p].closes = 1 /\ fonts[p].status = "dropped"
        /\ rwNativeCloses = 0

====
